---- MODULE Spec2Model ----
(***************************************************************************)
(* LeakDetector<T>: a counting wrapper around an inner allocator            *)
(* (src/src/lib.rs) and its scope guard (src/src/scope.rs).                 *)
(*                                                                         *)
(* Every wrapper method is split at its atomic steps: the forwarded inner  *)
(* call, the read-modify-write of the counter `used`, and the return to    *)
(* the caller.  Threads interleave at these steps.  The inner allocator is *)
(* a heap of at most MaxBlocks blocks; each of its calls may succeed or    *)
(* fail.                                                                   *)
(***************************************************************************)
EXTENDS Integers, Sequences, FiniteSets, TLC

\* ------------------------------------------------------------- bounds
NumThreads == 2
NumDetectors == 2
MaxBlocks == 2
MaxSize == 2
MaxDepth == 2
\* The callable handed to scope_with returns one of 0..MaxResult.
MaxResult == 1
\* The counter is an AtomicUsize; the model keeps a word of UsizeBits bits.
UsizeBits == 5

Threads == 1..NumThreads
Detectors == 1..NumDetectors
Blocks == 1..MaxBlocks
Mod == 2^UsizeBits
Word == 0..(Mod - 1)
\* Calls start only while the counter is within CounterCap of zero (on
\* either side of the wrap), the most the heap can hold: miscounted calls
\* could otherwise move the counter without limit.
CounterCap == MaxBlocks * MaxSize
\* Allocator::allocate accepts zero-sized layouts; GlobalAlloc::alloc
\* requires a non-zero size.
AllocatorSizes == 0..MaxSize
GlobalSizes == 1..MaxSize

VARIABLES
    used,              \* used[d]: LeakDetector.used of detector d
    live,              \* live[b]: the inner allocator's block b, or Free
    pc,                \* pc[t]: where thread t is inside a wrapper method
    op,                \* op[t]: the call thread t is executing or returning from
    guards,            \* guards[t]: thread t's stack of LeakDetectorScope values
    debug_assertions   \* cfg(debug_assertions): the build is a checked build

vars == <<used, live, pc, op, guards, debug_assertions>>

Free == [det |-> 0, size |-> 0, held |-> FALSE]
NoOp == [name |-> "none", det |-> 0, blk |-> 0, old |-> 0, new |-> 0, ok |-> TRUE, x |-> 0]
\* What is left of a call once its counter step is over: its name, its
\* detector and the inner allocator's result, which the wrapper returns.
Result(o) == [NoOp EXCEPT !.name = o.name, !.det = o.det, !.ok = o.ok]

\* ------------------------------------------------- AtomicUsize arithmetic
fetch_add(u, v) == (u + v) % Mod
fetch_sub(u, v) == (u - v + Mod) % Mod

\* usize::unchecked_sub(a, b): a - b when a >= b.  Otherwise the behaviour is
\* undefined: a checked build stops at the precondition check (the empty set
\* here, the caller aborts); an unchecked build emits a plain subtraction
\* whose result the optimiser may assume not to wrap, so the wrapped
\* difference and the two extreme words stand for what it can produce.
unchecked_sub(a, b) ==
    IF a >= b THEN {a - b}
    ELSE IF debug_assertions THEN {}
    ELSE {fetch_sub(a, b), 0, Mod - 1}

\* ------------------------------------------------------------ helpers
NoAbort == \A t \in Threads : pc[t] # "aborted"
NearZero(u) == u <= CounterCap \/ u >= Mod - CounterCap
CanCall(t, d) == pc[t] = "idle" /\ NoAbort /\ NearZero(used[d])
FreeBlocks == {b \in Blocks : live[b] = Free}
\* The inner allocator hands out the lowest free block.
NewBlock == CHOOSE b \in FreeBlocks : \A c \in FreeBlocks : b <= c
HeldBlocks(d) == {b \in Blocks : live[b].det = d /\ live[b].held}

\* The counter step was the method's last: the result goes back to the
\* caller, who from now on holds the block the call produced.
returns(t) ==
    /\ pc' = [pc EXCEPT ![t] = "ret"]
    /\ op' = [op EXCEPT ![t] = Result(op[t])]
    /\ live' = IF op[t].blk \in Blocks
               THEN [live EXCEPT ![op[t].blk].held = TRUE]
               ELSE live

\* LeakDetector::new: used = 0, nothing allocated, no call in progress.
Init ==
    /\ used = [d \in Detectors |-> 0]
    /\ live = [b \in Blocks |-> Free]
    /\ pc = [t \in Threads |-> "idle"]
    /\ op = [t \in Threads |-> NoOp]
    /\ guards = [t \in Threads |-> <<>>]
    /\ debug_assertions \in BOOLEAN

\* ------------------------------------------------ Allocator surface
\* self.inner.allocate(layout): Ok hands out a block, Err returns at once
\* (Result::inspect does not run its closure on Err).
inner_allocate(t, d, size, ok, name) ==
    /\ CanCall(t, d)
    /\ IF ok
       THEN /\ FreeBlocks # {}
            /\ live' = [live EXCEPT ![NewBlock] = [det |-> d, size |-> size, held |-> FALSE]]
            /\ pc' = [pc EXCEPT ![t] = "update"]
            /\ op' = [op EXCEPT ![t] = [name |-> name, det |-> d, blk |-> NewBlock,
                                        old |-> 0, new |-> size, ok |-> TRUE, x |-> 0]]
       ELSE /\ live' = live
            /\ pc' = [pc EXCEPT ![t] = "ret"]
            /\ op' = [op EXCEPT ![t] = [NoOp EXCEPT !.name = name, !.det = d, !.ok = FALSE]]
    /\ UNCHANGED <<used, guards, debug_assertions>>

allocate(t, d, size, ok) == inner_allocate(t, d, size, ok, "allocate")

\* Faulty variant: the counter is one static word that every instance shares.
allocate_inspect_static_counter(t) ==
    /\ pc[t] = "update" /\ op[t].name = "allocate" /\ NoAbort
    /\ used' = [used EXCEPT ![1] = fetch_add(@, op[t].new)]
    /\ returns(t)
    /\ UNCHANGED <<guards, debug_assertions>>

\* .inspect(|_| self.used.fetch_add(layout.size(), AcqRel))
allocate_inspect(t) ==
    /\ pc[t] = "update" /\ op[t].name = "allocate" /\ NoAbort
    /\ used' = [used EXCEPT ![op[t].det] = fetch_add(@, op[t].new)]
    /\ returns(t)
    /\ UNCHANGED <<guards, debug_assertions>>

\* self.inner.deallocate(ptr, layout): the block is released; it cannot fail.
inner_deallocate(t, d, b, name) ==
    /\ CanCall(t, d)
    /\ b \in HeldBlocks(d)
    /\ live' = [live EXCEPT ![b] = Free]
    /\ pc' = [pc EXCEPT ![t] = "update"]
    /\ op' = [op EXCEPT ![t] = [name |-> name, det |-> d, blk |-> 0,
                                old |-> live[b].size, new |-> 0, ok |-> TRUE, x |-> 0]]
    /\ UNCHANGED <<used, guards, debug_assertions>>

deallocate(t, d, b) == inner_deallocate(t, d, b, "deallocate")

\* Faulty variant: the release is counted as an allocation.
deallocate_update_adds(t) ==
    /\ pc[t] = "update" /\ op[t].name = "deallocate" /\ NoAbort
    /\ used' = [used EXCEPT ![op[t].det] = fetch_add(@, op[t].old)]
    /\ returns(t)
    /\ UNCHANGED <<guards, debug_assertions>>

\* self.used.fetch_sub(layout.size(), AcqRel)
deallocate_update(t) ==
    /\ pc[t] = "update" /\ op[t].name = "deallocate" /\ NoAbort
    /\ used' = [used EXCEPT ![op[t].det] = fetch_sub(@, op[t].old)]
    /\ returns(t)
    /\ UNCHANGED <<guards, debug_assertions>>

allocate_zeroed(t, d, size, ok) == inner_allocate(t, d, size, ok, "allocate_zeroed")

allocate_zeroed_inspect(t) ==
    /\ pc[t] = "update" /\ op[t].name = "allocate_zeroed" /\ NoAbort
    /\ used' = [used EXCEPT ![op[t].det] = fetch_add(@, op[t].new)]
    /\ returns(t)
    /\ UNCHANGED <<guards, debug_assertions>>

\* self.inner.grow / grow_zeroed / shrink / realloc (ptr, old_layout, new):
\* Ok resizes the block, a failure leaves it as it was; the caller has it
\* back when the wrapper returns.  `after` is where the wrapper goes on a
\* failure: "ret" when the counter update is skipped, "update" when not.
inner_resize(t, d, b, new, ok, name, after) ==
    /\ CanCall(t, d)
    /\ b \in HeldBlocks(d)
    /\ IF ok \/ after = "update"
       THEN /\ live' = [live EXCEPT ![b] = [det |-> d, size |-> IF ok THEN new ELSE @.size,
                                            held |-> FALSE]]
            /\ pc' = [pc EXCEPT ![t] = "update"]
            /\ op' = [op EXCEPT ![t] = [name |-> name, det |-> d, blk |-> b,
                                        old |-> live[b].size, new |-> new, ok |-> ok, x |-> 0]]
       ELSE /\ live' = live
            /\ pc' = [pc EXCEPT ![t] = "ret"]
            /\ op' = [op EXCEPT ![t] = [NoOp EXCEPT !.name = name, !.det = d, !.ok = FALSE]]
    /\ UNCHANGED <<used, guards, debug_assertions>>

\* Faulty variant: the counter update runs whatever the inner grow answered.
grow_counts_failure(t, d, b, new, ok) ==
    /\ b \in Blocks /\ new >= live[b].size
    /\ inner_resize(t, d, b, new, ok, "grow", "update")

\* Precondition of Allocator::grow: new_layout.size() >= old_layout.size().
grow(t, d, b, new, ok) ==
    /\ b \in Blocks /\ new >= live[b].size
    /\ inner_resize(t, d, b, new, ok, "grow", "ret")

\* Faulty variant: the whole new size is added, not the difference.
grow_inspect_adds_new_size(t) ==
    /\ pc[t] = "update" /\ op[t].name = "grow" /\ NoAbort
    /\ used' = [used EXCEPT ![op[t].det] = fetch_add(@, op[t].new)]
    /\ returns(t)
    /\ UNCHANGED <<guards, debug_assertions>>

\* .inspect(|_| self.used.fetch_add(new.size().unchecked_sub(old.size()), AcqRel))
grow_inspect(t) ==
    /\ pc[t] = "update" /\ op[t].name = "grow" /\ NoAbort
    /\ \E delta \in unchecked_sub(op[t].new, op[t].old) :
           used' = [used EXCEPT ![op[t].det] = fetch_add(@, delta)]
    /\ returns(t)
    /\ UNCHANGED <<guards, debug_assertions>>

grow_zeroed(t, d, b, new, ok) ==
    /\ b \in Blocks /\ new >= live[b].size
    /\ inner_resize(t, d, b, new, ok, "grow_zeroed", "ret")

grow_zeroed_inspect(t) ==
    /\ pc[t] = "update" /\ op[t].name = "grow_zeroed" /\ NoAbort
    /\ \E delta \in unchecked_sub(op[t].new, op[t].old) :
           used' = [used EXCEPT ![op[t].det] = fetch_add(@, delta)]
    /\ returns(t)
    /\ UNCHANGED <<guards, debug_assertions>>

\* Precondition of Allocator::shrink: new_layout.size() <= old_layout.size().
shrink(t, d, b, new, ok) ==
    /\ b \in Blocks /\ new <= live[b].size
    /\ inner_resize(t, d, b, new, ok, "shrink", "ret")

\* .inspect(|_| self.used.fetch_add(old.size().unchecked_sub(new.size()), AcqRel))
shrink_inspect(t) ==
    /\ pc[t] = "update" /\ op[t].name = "shrink" /\ NoAbort
    /\ \E delta \in unchecked_sub(op[t].old, op[t].new) :
           used' = [used EXCEPT ![op[t].det] = fetch_add(@, delta)]
    /\ returns(t)
    /\ UNCHANGED <<guards, debug_assertions>>

\* --------------------------------------------- GlobalAlloc surface
\* Faulty variant: the pointer is handed to the caller before the counter
\* update.
inner_alloc_returns_first(t, d, size, ok, name) ==
    /\ CanCall(t, d)
    /\ ok => FreeBlocks # {}
    /\ live' = IF ok
               THEN [live EXCEPT ![NewBlock] = [det |-> d, size |-> size, held |-> TRUE]]
               ELSE live
    /\ pc' = [pc EXCEPT ![t] = "update"]
    /\ op' = [op EXCEPT ![t] = [name |-> name, det |-> d,
                                blk |-> IF ok THEN NewBlock ELSE 0,
                                old |-> 0, new |-> size, ok |-> ok, x |-> 0]]
    /\ UNCHANGED <<used, guards, debug_assertions>>

\* let result = self.inner.alloc(layout): a pointer or null; the wrapper
\* goes on to its counter update either way.
inner_alloc(t, d, size, ok, name) ==
    /\ CanCall(t, d)
    /\ ok => FreeBlocks # {}
    /\ live' = IF ok
               THEN [live EXCEPT ![NewBlock] = [det |-> d, size |-> size, held |-> FALSE]]
               ELSE live
    /\ pc' = [pc EXCEPT ![t] = "update"]
    /\ op' = [op EXCEPT ![t] = [name |-> name, det |-> d,
                                blk |-> IF ok THEN NewBlock ELSE 0,
                                old |-> 0, new |-> size, ok |-> ok, x |-> 0]]
    /\ UNCHANGED <<used, guards, debug_assertions>>

alloc(t, d, size, ok) == inner_alloc(t, d, size, ok, "alloc")

\* self.used.fetch_add(layout.size(), AcqRel); result
alloc_update(t) ==
    /\ pc[t] = "update" /\ op[t].name = "alloc" /\ NoAbort
    /\ used' = [used EXCEPT ![op[t].det] = fetch_add(@, op[t].new)]
    /\ returns(t)
    /\ UNCHANGED <<guards, debug_assertions>>

\* GlobalAlloc::dealloc requires a block of non-zero size.
dealloc(t, d, b) ==
    /\ b \in Blocks /\ live[b].size >= 1
    /\ inner_deallocate(t, d, b, "dealloc")

\* self.used.fetch_sub(layout.size(), AcqRel)
dealloc_update(t) ==
    /\ pc[t] = "update" /\ op[t].name = "dealloc" /\ NoAbort
    /\ used' = [used EXCEPT ![op[t].det] = fetch_sub(@, op[t].old)]
    /\ returns(t)
    /\ UNCHANGED <<guards, debug_assertions>>

alloc_zeroed(t, d, size, ok) == inner_alloc(t, d, size, ok, "alloc_zeroed")

alloc_zeroed_update(t) ==
    /\ pc[t] = "update" /\ op[t].name = "alloc_zeroed" /\ NoAbort
    /\ used' = [used EXCEPT ![op[t].det] = fetch_add(@, op[t].new)]
    /\ returns(t)
    /\ UNCHANGED <<guards, debug_assertions>>

\* let result = self.inner.realloc(ptr, layout, new_size): null leaves the
\* old block valid; the wrapper goes on to its counter update either way.
realloc(t, d, b, new_size, ok) ==
    /\ b \in Blocks /\ live[b].size >= 1
    /\ inner_resize(t, d, b, new_size, ok, "realloc", "update")

\* AtomicUsize::update(Release, Acquire, f): let mut prev = self.load(Acquire)
realloc_load(t) ==
    /\ pc[t] = "update" /\ op[t].name = "realloc" /\ NoAbort
    /\ op' = [op EXCEPT ![t].x = used[op[t].det]]
    /\ pc' = [pc EXCEPT ![t] = "cas"]
    /\ UNCHANGED <<used, live, guards, debug_assertions>>

\* f(prev) = unsafe { prev.unchecked_sub(layout.size()) } + new_size.  The `+`
\* is an ordinary addition: a checked build panics when it overflows (the
\* empty set here), an unchecked build wraps.
realloc_f(prev, size, new_size) ==
    {v \in Word : \E w \in unchecked_sub(prev, size) :
        /\ v = fetch_add(w, new_size)
        /\ debug_assertions => w + new_size < Mod}

\* compare_exchange_weak(prev, next, Release, Acquire): the store happens
\* only if the counter still holds prev.
compare_exchange(cur, prev, next) == IF cur = prev THEN next ELSE cur

\* Faulty variant: the new value is stored without comparing (a load and a store
\* in place of the read-modify-write loop).
realloc_store(t) ==
    /\ pc[t] = "cas" /\ op[t].name = "realloc" /\ NoAbort
    /\ \E v \in realloc_f(op[t].x, op[t].old, op[t].new) :
           used' = [used EXCEPT ![op[t].det] = v]
    /\ returns(t)
    /\ UNCHANGED <<guards, debug_assertions>>

\* loop { match self.compare_exchange_weak(prev, f(prev), Release, Acquire)
\*        { Ok(x) => break x, Err(next_prev) => prev = next_prev } }
realloc_cas(t) ==
    /\ pc[t] = "cas" /\ op[t].name = "realloc" /\ NoAbort
    /\ LET d == op[t].det
           next == realloc_f(op[t].x, op[t].old, op[t].new)
       IN  IF next = {}
           THEN /\ pc' = [pc EXCEPT ![t] = "aborted"]
                /\ UNCHANGED <<used, op, live>>
           ELSE /\ \E v \in next : used' = [used EXCEPT ![d] = compare_exchange(@, op[t].x, v)]
                /\ IF used[d] = op[t].x
                   THEN returns(t)
                   ELSE /\ op' = [op EXCEPT ![t].x = used[d]]
                        /\ UNCHANGED <<pc, live>>
    /\ UNCHANGED <<guards, debug_assertions>>

\* The method returns to its caller.
return(t) ==
    /\ pc[t] = "ret" /\ NoAbort
    /\ pc' = [pc EXCEPT ![t] = "idle"]
    /\ op' = [op EXCEPT ![t] = NoOp]
    /\ UNCHANGED <<used, live, guards, debug_assertions>>

\* -------------------------------------------------- diagnostics
\* get_used(): the current counter value (the accessor scope.rs calls).
get_used(d) == used[d]

\* Faulty variant: the check takes the counter's value out (swap(0)).
LeakDetector_assert_swaps(t, d) ==
    /\ pc[t] = "idle" /\ NoAbort
    /\ pc' = [pc EXCEPT ![t] = IF used[d] = 0 THEN "ret" ELSE "panicking"]
    /\ op' = [op EXCEPT ![t] = [NoOp EXCEPT !.name = "assert", !.det = d,
                                            !.ok = (used[d] = 0)]]
    /\ used' = [used EXCEPT ![d] = 0]
    /\ UNCHANGED <<live, guards, debug_assertions>>

\* assert!(self.used.load(Acquire) == 0): returns, or panics.
LeakDetector_assert(t, d) ==
    /\ pc[t] = "idle" /\ NoAbort
    /\ pc' = [pc EXCEPT ![t] = IF used[d] = 0 THEN "ret" ELSE "panicking"]
    /\ op' = [op EXCEPT ![t] = [NoOp EXCEPT !.name = "assert", !.det = d,
                                            !.ok = (used[d] = 0)]]
    /\ UNCHANGED <<used, live, guards, debug_assertions>>

\* LeakDetector::scope: LeakDetectorScope { detector: self, start: self.get_used() }.
\* local tells whose value the guard is: the caller's (FALSE), or the
\* variable _guard of a scope_with call (TRUE).
LeakDetectorScope(d, local) == [detector |-> d, start |-> get_used(d), local |-> local]

\* Faulty variant: a scope opened inside another takes the enclosing
\* scope's baseline instead of reading the counter.
scope_shares_baseline(t, d) ==
    /\ pc[t] = "idle" /\ NoAbort
    /\ Len(guards[t]) < MaxDepth
    /\ guards' = [guards EXCEPT ![t] =
            Append(@, [detector |-> d, local |-> FALSE,
                       start |-> IF @ = <<>> THEN get_used(d) ELSE @[1].start])]
    /\ UNCHANGED <<used, live, pc, op, debug_assertions>>

scope(t, d) ==
    /\ pc[t] = "idle" /\ NoAbort
    /\ Len(guards[t]) < MaxDepth
    /\ guards' = [guards EXCEPT ![t] = Append(@, LeakDetectorScope(d, FALSE))]
    /\ UNCHANGED <<used, live, pc, op, debug_assertions>>

\* Faulty variant: the destructor checks for an empty counter, as assert() does.
drop_compares_zero(g) == debug_assertions => get_used(g.detector) = 0

\* Faulty variant: the destructor is compiled into every build.
drop_in_every_build(g) == g.start = get_used(g.detector)

\* Faulty variant: the destructor makes no comparison.
drop_never_fails(g) == TRUE

\* The check a guard's destructor makes.  #[cfg(debug_assertions)] impl Drop:
\* let end = self.detector.get_used(); assert_eq!(self.start, end).  Without
\* debug_assertions the type has no destructor.
drop_passes(g) == debug_assertions => g.start = get_used(g.detector)

\* The innermost guard of thread t, one the caller holds, goes out of scope.
drop(t) ==
    /\ pc[t] = "idle" /\ NoAbort
    /\ guards[t] # <<>>
    /\ LET g == guards[t][Len(guards[t])]
       IN  /\ ~g.local
           /\ pc' = [pc EXCEPT ![t] = IF drop_passes(g) THEN "ret" ELSE "panicking"]
           /\ op' = [op EXCEPT ![t] = [NoOp EXCEPT !.name = "drop", !.det = g.detector,
                                                   !.old = g.start,
                                                   !.ok = drop_passes(g)]]
    /\ guards' = [guards EXCEPT ![t] = SubSeq(@, 1, Len(@) - 1)]
    /\ UNCHANGED <<used, live, debug_assertions>>

\* A panic unwinds thread t's stack: each guard still on it is dropped,
\* innermost first; a destructor that panics during unwinding aborts the
\* process.  With the stack empty the thread has ended.
unwind(t) ==
    /\ pc[t] = "panicking" /\ NoAbort
    /\ IF guards[t] = <<>>
       THEN /\ pc' = [pc EXCEPT ![t] = "panicked"]
            /\ guards' = guards
       ELSE /\ pc' = [pc EXCEPT ![t] = IF drop_passes(guards[t][Len(guards[t])])
                                       THEN "panicking" ELSE "aborted"]
            /\ guards' = [guards EXCEPT ![t] = SubSeq(@, 1, Len(@) - 1)]
    /\ UNCHANGED <<used, live, op, debug_assertions>>

\* ------------------------------------------------------ scope_with
\* scope_with, first statement: let _guard = self.scope().  The callable
\* runs next, on the calling thread: the calls f makes are that thread's
\* calls, made while _guard is on its stack.
scope_with(t, d) ==
    /\ pc[t] = "idle" /\ NoAbort
    /\ Len(guards[t]) < MaxDepth
    /\ guards' = [guards EXCEPT ![t] = Append(@, LeakDetectorScope(d, TRUE))]
    /\ UNCHANGED <<used, live, pc, op, debug_assertions>>

\* f.call_once(args) returns r: the tail expression of scope_with has its
\* value and the locals of scope_with are about to be dropped.
call_once(t, r) ==
    /\ pc[t] = "idle" /\ NoAbort
    /\ guards[t] # <<>> /\ guards[t][Len(guards[t])].local
    /\ pc' = [pc EXCEPT ![t] = "with_exit"]
    /\ op' = [op EXCEPT ![t] = [NoOp EXCEPT !.name = "scope_with",
                                            !.det = guards[t][Len(guards[t])].detector,
                                            !.old = r]]
    /\ UNCHANGED <<used, live, guards, debug_assertions>>

\* f.call_once(args) panics: the panic unwinds through scope_with.
call_once_panics(t) ==
    /\ pc[t] = "idle" /\ NoAbort
    /\ guards[t] # <<>> /\ guards[t][Len(guards[t])].local
    /\ pc' = [pc EXCEPT ![t] = "panicking"]
    /\ op' = [op EXCEPT ![t] = [NoOp EXCEPT !.name = "call_once", !.ok = FALSE]]
    /\ UNCHANGED <<used, live, guards, debug_assertions>>

\* Faulty variant: scope_with lets go of its guard without the check
\* (mem::forget(_guard)) and returns.
scope_with_forgets_guard(t) ==
    /\ pc[t] = "with_exit" /\ NoAbort
    /\ pc' = [pc EXCEPT ![t] = "ret"]
    /\ op' = [op EXCEPT ![t].new = op[t].old]
    /\ guards' = [guards EXCEPT ![t] = SubSeq(@, 1, Len(@) - 1)]
    /\ UNCHANGED <<used, live, debug_assertions>>

\* scope_with, closing brace: _guard is dropped, then the value of
\* f.call_once(args) is returned; a failing check panics instead.
scope_with_drop(t) ==
    /\ pc[t] = "with_exit" /\ NoAbort
    /\ LET g == guards[t][Len(guards[t])]
       IN  /\ pc' = [pc EXCEPT ![t] = IF drop_passes(g) THEN "ret" ELSE "panicking"]
           /\ op' = [op EXCEPT ![t].new = IF drop_passes(g) THEN op[t].old ELSE 0,
                                ![t].ok = drop_passes(g)]
    /\ guards' = [guards EXCEPT ![t] = SubSeq(@, 1, Len(@) - 1)]
    /\ UNCHANGED <<used, live, debug_assertions>>

\* --------------------------------------------------- specifications
\* A call of thread t on detector d through the Allocator surface.
AllocatorCall(t, d) ==
    \/ \E s \in AllocatorSizes, ok \in BOOLEAN : allocate(t, d, s, ok)
    \/ \E s \in AllocatorSizes, ok \in BOOLEAN : allocate_zeroed(t, d, s, ok)
    \/ \E b \in Blocks : deallocate(t, d, b)
    \/ \E b \in Blocks, s \in AllocatorSizes, ok \in BOOLEAN : grow(t, d, b, s, ok)
    \/ \E b \in Blocks, s \in AllocatorSizes, ok \in BOOLEAN : grow_zeroed(t, d, b, s, ok)
    \/ \E b \in Blocks, s \in AllocatorSizes, ok \in BOOLEAN : shrink(t, d, b, s, ok)

AllocatorStep(t) ==
    \/ allocate_inspect(t)
    \/ allocate_zeroed_inspect(t)
    \/ deallocate_update(t)
    \/ grow_inspect(t)
    \/ grow_zeroed_inspect(t)
    \/ shrink_inspect(t)

\* A call of thread t on detector d through the GlobalAlloc surface; oks
\* is what the inner allocator may answer.
GlobalCall(t, d, oks) ==
    \/ \E s \in GlobalSizes, ok \in oks : alloc(t, d, s, ok)
    \/ \E s \in GlobalSizes, ok \in oks : alloc_zeroed(t, d, s, ok)
    \/ \E b \in Blocks : dealloc(t, d, b)
    \/ \E b \in Blocks, s \in GlobalSizes, ok \in oks : realloc(t, d, b, s, ok)

GlobalStep(t) ==
    \/ alloc_update(t)
    \/ alloc_zeroed_update(t)
    \/ dealloc_update(t)
    \/ realloc_load(t)
    \/ realloc_cas(t)

\* The whole program: every thread, every operation, one shared detector.
Next ==
    \/ \E t \in Threads : AllocatorCall(t, 1)
    \/ \E t \in Threads : AllocatorStep(t)
    \/ \E t \in Threads : GlobalCall(t, 1, BOOLEAN)
    \/ \E t \in Threads : GlobalStep(t)
    \/ \E t \in Threads : return(t)
    \/ \E t \in Threads : LeakDetector_assert(t, 1)
    \/ \E t \in Threads : unwind(t)

Spec == Init /\ [][Next]_vars

\* Calls on the Allocator surface that only allocate and deallocate.
PairedCall(t, d) ==
    \/ \E sz \in AllocatorSizes, ok \in BOOLEAN : allocate(t, d, sz, ok)
    \/ \E b \in Blocks : deallocate(t, d, b)

PairedStep(t) ==
    \/ allocate_inspect(t)
    \/ deallocate_update(t)

\* Paired allocate/deallocate traffic from every thread, with assert().
NextPaired ==
    \/ \E t \in Threads : PairedCall(t, 1)
    \/ \E t \in Threads : PairedStep(t)
    \/ \E t \in Threads : return(t)
    \/ \E t \in Threads : LeakDetector_assert(t, 1)
    \/ \E t \in Threads : unwind(t)

SpecPaired == Init /\ [][NextPaired]_vars

\* GlobalAlloc traffic from every thread with an inner allocator that
\* satisfies every request it has room for.
NextGlobalOk ==
    \/ \E t \in Threads : GlobalCall(t, 1, {TRUE})
    \/ \E t \in Threads : GlobalStep(t)
    \/ \E t \in Threads : return(t)

SpecGlobalOk == Init /\ [][NextGlobalOk]_vars

\* One thread alone on the detector: every operation, assert() and scopes.
NextScope ==
    \/ AllocatorCall(1, 1)
    \/ AllocatorStep(1)
    \/ GlobalCall(1, 1, BOOLEAN)
    \/ GlobalStep(1)
    \/ return(1)
    \/ LeakDetector_assert(1, 1)
    \/ scope(1, 1)
    \/ drop(1)
    \/ unwind(1)

SpecScope == Init /\ [][NextScope]_vars

\* One thread alone on the detector, its paired allocate/deallocate calls
\* made inside and outside scope_with calls, whose callables return or panic.
NextScopeWith ==
    \/ PairedCall(1, 1)
    \/ PairedStep(1)
    \/ return(1)
    \/ scope_with(1, 1)
    \/ \E r \in 0..MaxResult : call_once(1, r)
    \/ call_once_panics(1)
    \/ scope_with_drop(1)
    \/ unwind(1)

SpecScopeWith == Init /\ [][NextScopeWith]_vars

\* The size of the blocks thread t works with when threads share a
\* detector: thread 1 allocates single bytes, the others blocks of MaxSize,
\* and each thread releases only blocks of its own size.
OwnSize(t) == IF t = 1 THEN 1 ELSE MaxSize

OwnCall(t, d) ==
    \/ \E ok \in BOOLEAN : allocate(t, d, OwnSize(t), ok)
    \/ \E b \in Blocks : live[b].size = OwnSize(t) /\ deallocate(t, d, b)

\* Two threads share detector 1: thread 1 opens and closes scopes around
\* its own allocate/deallocate calls while the others allocate and
\* deallocate their own blocks.
NextShared ==
    \/ \E t \in Threads : OwnCall(t, 1)
    \/ \E t \in Threads : PairedStep(t)
    \/ \E t \in Threads : return(t)
    \/ scope(1, 1)
    \/ drop(1)
    \/ unwind(1)

SpecShared == Init /\ [][NextShared]_vars

\* The threads that have a detector of their own: thread t has detector t.
Owners == Threads \cap Detectors

\* Each thread works on its own LeakDetector, which nobody else touches:
\* allocate/deallocate calls, and on thread 1 scopes around them.
NextOwn ==
    \/ \E t \in Owners : PairedCall(t, t)
    \/ \E t \in Owners : PairedStep(t)
    \/ \E t \in Owners : return(t)
    \/ scope(1, 1)
    \/ drop(1)
    \/ unwind(1)

SpecOwn == Init /\ [][NextOwn]_vars

\* ------------------------------------------------------- properties
RECURSIVE SumSizes(_)
SumSizes(S) ==
    IF S = {} THEN 0
    ELSE LET b == CHOOSE c \in S : TRUE IN live[b].size + SumSizes(S \ {b})

\* The bytes currently allocated through detector d and not yet released.
LiveBytes(d) == SumSizes({b \in Blocks : live[b] # Free /\ live[b].det = d})

\* No allocator operation is in flight.
Quiescent == \A t \in Threads : pc[t] \in {"idle", "panicked"}

\* C1: whenever no allocator operation is in flight, used equals the sum of
\* the sizes of the blocks allocated through the instance and not yet
\* released.
C1_UsedEqualsLiveBytes == Quiescent => used[1] = LiveBytes(1)

\* Steps of thread t, as seen from outside the actions.
AssertStep(t) == pc[t] = "idle" /\ op'[t].name = "assert"
CounterStep(t, names) ==
    pc[t] \in {"update", "cas"} /\ pc'[t] = "ret" /\ op[t].name \in names
ScopeStep(t) == Len(guards'[t]) = Len(guards[t]) + 1
DropStep(t) == pc[t] = "idle" /\ Len(guards'[t]) = Len(guards[t]) - 1
Top(stack) == stack[Len(stack)]

\* Every allocate has been matched by its deallocate and every call returned.
AllPairsCompleted ==
    /\ \A b \in Blocks : live[b] = Free
    /\ \A t \in Threads : op[t].name \notin {"allocate", "deallocate"}

\* C2: once every successful allocate has been matched by its deallocate,
\* get_used() is 0 and an assert() made then returns without panicking.
C2_PairedCallsBalance ==
    /\ [](AllPairsCompleted => get_used(1) = 0)
    /\ [][\A t \in Threads :
            (AllPairsCompleted /\ AssertStep(t)) => pc'[t] = "ret"]_vars

\* C2's case: one thread's assert() failed while a block was outstanding,
\* the block has since been deallocated, and another assert() has passed.
C2_Witness ==
    /\ AllPairsCompleted
    /\ \E t, u \in Threads :
        /\ pc[t] = "ret" /\ op[t].name = "assert" /\ op[t].ok
        /\ pc[u] = "panicked" /\ op[u].name = "assert"

\* C3: an assert() made while the caller holds a block (of non-zero size)
\* allocated through the instance panics.
C3_LeakFailsAssert ==
    [][\A t \in Threads :
        (AssertStep(t) /\ \E b \in HeldBlocks(1) : live[b].size >= 1)
            => pc'[t] = "panicking"]_vars

\* C4: a successful shrink lowers the counter by old size - new size.
C4_ShrinkSubtractsDelta ==
    [][\A t \in Threads : CounterStep(t, {"shrink"}) =>
        used'[1] = fetch_sub(used[1], op[t].old - op[t].new)]_vars

\* C5: a successful grow or grow_zeroed raises the counter by
\* new size - old size.
C5_GrowAddsDelta ==
    [][\A t \in Threads : CounterStep(t, {"grow", "grow_zeroed"}) =>
        used'[1] = fetch_add(used[1], op[t].new - op[t].old)]_vars

\* C5's case: a grow_zeroed has succeeded and been counted, the grown block
\* being the only one allocated.
C5_Witness ==
    \E t \in Threads :
        /\ pc[t] = "ret" /\ op[t].name = "grow_zeroed" /\ op[t].ok
        /\ \E b \in HeldBlocks(1) : live[b].size = MaxSize /\ used[1] = MaxSize

\* C6: when the inner alloc or alloc_zeroed returns null, the wrapper
\* returns null and leaves the counter as it was.
C6_NullAllocKeepsCounter ==
    [][\A t \in Threads :
        (CounterStep(t, {"alloc", "alloc_zeroed"}) /\ ~op[t].ok)
            => (used' = used /\ ~op'[t].ok)]_vars

\* C7: when the inner realloc returns null, the wrapper returns null and
\* leaves the counter as it was.
C7_NullReallocKeepsCounter ==
    [][\A t \in Threads :
        (CounterStep(t, {"realloc"}) /\ ~op[t].ok)
            => (used' = used /\ ~op'[t].ok)]_vars

Fallible == {"allocate", "allocate_zeroed", "grow", "grow_zeroed", "shrink"}

\* C8: a call on the Allocator surface whose inner call failed returns the
\* error with the counter (and the heap) as they were.
C8_ErrKeepsCounter ==
    [][\A t \in Threads :
        (pc[t] # "ret" /\ pc'[t] = "ret" /\ op'[t].name \in Fallible /\ ~op'[t].ok)
            => (used' = used /\ live' = live)]_vars

\* C8's case: a grow has failed on a detector that counts live bytes.
C8_Witness ==
    \E t \in Threads :
        /\ pc[t] = "ret" /\ op[t].name = "grow" /\ ~op[t].ok
        /\ used[1] > 0

\* The change to the counter that the call thread t is inside still owes.
Pending(t) ==
    IF pc[t] \notin {"update", "cas"} THEN 0
    ELSE IF op[t].name \in {"alloc", "alloc_zeroed"} THEN op[t].new
    ELSE IF op[t].name = "dealloc" THEN 0 - op[t].old
    ELSE IF op[t].name = "realloc" THEN op[t].new - op[t].old
    ELSE 0

RECURSIVE SumPending(_)
SumPending(T) ==
    IF T = {} THEN 0
    ELSE LET t == CHOOSE u \in T : TRUE IN Pending(t) + SumPending(T \ {t})

C10_ScopeChecksBaseline ==
    [][\A t \in Threads :
        /\ ScopeStep(t) => Top(guards'[t]).start = used[Top(guards'[t]).detector]
        /\ \A i \in 1..Len(guards[t]) :
              i <= Len(guards'[t]) => guards'[t][i] = guards[t][i]
        /\ (DropStep(t) /\ debug_assertions) =>
              (pc'[t] = "ret" <=> Top(guards[t]).start = used[Top(guards[t]).detector])
      ]_vars

\* C10's case: in a checked build a scope opened on a non-empty counter
\* has ended with its check passing.
C10_Witness ==
    /\ debug_assertions
    /\ pc[1] = "ret" /\ op[1].name = "drop" /\ op[1].ok
    /\ used[1] > 0

\* The step takes the innermost guard off thread t's stack.
GuardLeaves(t) ==
    /\ guards[t] # <<>>
    /\ guards'[t] = SubSeq(guards[t], 1, Len(guards[t]) - 1)
BaselineHeld(g) == g.start = used[g.detector]

\* C11: scope_with(f, args) returns f's result, and the baseline check of
\* its guard runs exactly once per call, after f has finished, both when f
\* returns and when f panics: the guard leaves the stack only once f is
\* over, in one step, and that step goes the way the comparison of the
\* counter with the baseline says.
C11_ScopeWithChecksOnce ==
    [][\A t \in Threads :
        /\ (GuardLeaves(t) /\ Top(guards[t]).local)
              => pc[t] \in {"with_exit", "panicking"}
        /\ (pc[t] = "with_exit" /\ pc'[t] # "with_exit") =>
              /\ GuardLeaves(t)
              /\ pc'[t] = "ret" <=> BaselineHeld(Top(guards[t]))
              /\ pc'[t] = "ret" => op'[t].new = op[t].old
        /\ (pc[t] = "panicking" /\ GuardLeaves(t)) =>
              (pc'[t] = "panicking" <=> BaselineHeld(Top(guards[t])))
      ]_vars

\* C11, amended: as C11 in a checked build; in an unchecked build
\* scope_with returns f's result and no check runs, on either path.
C11_ScopeWithChecksOnceIfChecked ==
    [][\A t \in Threads :
        /\ (GuardLeaves(t) /\ Top(guards[t]).local)
              => pc[t] \in {"with_exit", "panicking"}
        /\ (pc[t] = "with_exit" /\ pc'[t] # "with_exit") =>
              /\ GuardLeaves(t)
              /\ pc'[t] = "ret" <=>
                    (~debug_assertions \/ BaselineHeld(Top(guards[t])))
              /\ pc'[t] = "ret" => op'[t].new = op[t].old
        /\ (pc[t] = "panicking" /\ GuardLeaves(t)) =>
              (pc'[t] = "panicking" <=>
                    (~debug_assertions \/ BaselineHeld(Top(guards[t]))))
      ]_vars

\* C11's case: in a checked build the callable panicked inside scope_with
\* on a non-empty counter, the guard's check ran during the unwinding and
\* passed, and the panic has left the thread's stack empty.
C11_Witness ==
    /\ debug_assertions
    /\ pc[1] = "panicked" /\ op[1].name = "call_once"
    /\ guards[1] = <<>>
    /\ used[1] > 0

\* The check of the guard that leaves thread t's stack fails: a panic, or,
\* during unwinding, the abort of the process.
CheckFails(t) ==
    \/ pc[t] = "idle" /\ pc'[t] = "panicking"
    \/ pc[t] = "panicking" /\ pc'[t] = "aborted"

\* C12: nested scopes are independent.  A scope opened at any depth reads
\* its own baseline and leaves the guards under it as they are; in a checked
\* build the check of a guard leaving depth i fails exactly if the counter
\* differs from that guard's own baseline, whatever scopes were opened and
\* closed above it, and the guards under it stay as they are.
C12_NestedScopesIndependent ==
    [][\A t \in Threads : \A i \in 1..MaxDepth :
        /\ (ScopeStep(t) /\ Len(guards'[t]) = i) =>
              /\ guards'[t][i].start = used[guards'[t][i].detector]
              /\ SubSeq(guards'[t], 1, i - 1) = guards[t]
        /\ (GuardLeaves(t) /\ Len(guards[t]) = i /\ debug_assertions) =>
              /\ CheckFails(t) <=> guards[t][i].start # used[guards[t][i].detector]
              /\ guards'[t] = SubSeq(guards[t], 1, i - 1)
      ]_vars

\* C12's case: in a checked build an inner scope has ended with its check
\* passing while the enclosing scope, still open, has a baseline the
\* counter has moved away from.
C12_Witness ==
    /\ debug_assertions
    /\ pc[1] = "ret" /\ op[1].name = "drop" /\ op[1].ok
    /\ Len(guards[1]) = 1
    /\ guards[1][1].start # used[1]
    /\ op[1].old # guards[1][1].start

\* The methods of the two surfaces that move the counter.
AllocatorSurface ==
    {"allocate", "allocate_zeroed", "deallocate", "grow", "grow_zeroed", "shrink"}
GlobalAllocSurface == {"alloc", "alloc_zeroed", "dealloc", "realloc"}

\* C13: for every successful operation the change of the counter depends
\* only on the layout sizes, not on the surface the call came through: a
\* call that turns old bytes into new bytes (old = 0 for an allocation,
\* new = 0 for a release) moves the counter by new - old, so that
\* allocations on one surface and matching releases on the other cancel.
C13_SurfacesCountAlike ==
    [][\A t \in Threads :
        (CounterStep(t, AllocatorSurface \cup GlobalAllocSurface) /\ op[t].ok)
            => used'[1] = (used[1] + op[t].new - op[t].old + Mod) % Mod]_vars

\* C14: the exit check runs only in checked builds.  In either build a
\* scope keeps the counter value read at its creation; in an unchecked
\* build no guard leaving the stack fails, whatever the counter is.
C14_UncheckedBuildNeverFails ==
    [][\A t \in Threads :
        /\ ScopeStep(t) =>
              \E d \in Detectors :
                  guards'[t] = Append(guards[t], [detector |-> d, start |-> used[d],
                                                  local |-> FALSE])
        /\ (GuardLeaves(t) /\ ~debug_assertions) => ~CheckFails(t)
      ]_vars

\* C14's case: in an unchecked build a scope has ended without failing
\* although the counter differs from the baseline the guard held.
C14_Witness ==
    /\ ~debug_assertions
    /\ pc[1] = "ret" /\ op[1].name = "drop" /\ op[1].ok
    /\ op[1].old # used[1]

\* The bytes of detector 1 in live blocks of thread t's size.
OwnBytes(t) ==
    SumSizes({b \in Blocks : live[b] # Free /\ live[b].det = 1
                                /\ live[b].size = OwnSize(t)})

\* C15: a scope's check reflects the aggregate counter.  With threads
\* sharing one detector, in a checked build the check of thread 1's guard
\* fails exactly if the counter, which every thread's calls move, differs
\* from the baseline; the bytes thread 1 itself holds do not decide it.
C15_CheckReadsSharedCounter ==
    [][(DropStep(1) /\ debug_assertions) =>
          (CheckFails(1) <=> Top(guards[1]).start # used[1])]_vars

\* C15's case: in a checked build thread 1 opened a scope on an empty
\* counter and holds no block at its end, its body being balanced, and yet
\* its exit check has failed: the counter holds another thread's bytes.
C15_Witness ==
    /\ debug_assertions
    /\ pc[1] = "panicking" /\ op[1].name = "drop" /\ op[1].old = 0
    /\ OwnBytes(1) = 0
    /\ used[1] = OwnBytes(2) /\ used[1] > 0

Allocating ==
    {"allocate", "allocate_zeroed", "grow", "grow_zeroed",
     "alloc", "alloc_zeroed", "realloc"}

\* C17: in every allocating operation the counter update comes after the
\* inner call and before the return: a block passes into its caller's
\* hands only in the counter step of the call that produced it (shrink, the
\* one other method returning a block, included), and for a successful
\* allocate, allocate_zeroed, grow, grow_zeroed, alloc or alloc_zeroed that
\* step has added the bytes the call brought.
C17_CountedBeforeReturned ==
    [][\A b \in Blocks :
        (~live[b].held /\ live'[b].held) =>
            \E t \in Threads :
                /\ CounterStep(t, Allocating \cup {"shrink"})
                /\ op[t].blk = b
                /\ (op[t].ok /\ op[t].name \in Allocating \ {"realloc"}) =>
                      used'[1] = fetch_add(used[1], op[t].new - op[t].old)
      ]_vars

\* C17's case: one thread's alloc has been counted and returned while
\* another thread's allocate_zeroed is between its inner call and its
\* counter update, its block in nobody's hands yet.
C17_Witness ==
    \E t, u \in Threads :
        /\ pc[t] = "ret" /\ op[t].name = "alloc" /\ op[t].ok
        /\ pc[u] = "update" /\ op[u].name = "allocate_zeroed"
        /\ ~live[op[u].blk].held /\ live[op[u].blk].size > 0
        /\ HeldBlocks(1) # {} /\ used[1] = SumSizes(HeldBlocks(1))

\* C18: apart from counting, the wrapper is the inner allocator: once the
\* inner call of a method has answered, the method makes no second inner
\* call (the heap stays as the one call left it), returns that answer, and
\* adds no failure of its own.
C18_WrapperAddsNoFailure ==
    [][\A t \in Threads :
        (pc[t] \in {"update", "cas"} /\ <<pc'[t], op'[t]>> # <<pc[t], op[t]>>) =>
            /\ pc'[t] \in {"cas", "ret"}
            /\ pc'[t] = "ret" => op'[t].ok = op[t].ok
            /\ \A b \in Blocks : live'[b].size = live[b].size /\ live'[b].det = live[b].det
      ]_vars

\* C19: the counter never underflows: whatever calls came before, failed
\* inner calls included, the size a deallocate or dealloc subtracts is at
\* most the counter it subtracts from, and the old size realloc's update
\* closure subtracts is at most the value the closure was given.
C19_NoUnderflow ==
    [][\A t \in Threads :
        /\ CounterStep(t, {"deallocate", "dealloc"}) => op[t].old <= used[1]
        /\ (pc[t] = "cas" /\ op[t].name = "realloc" /\ pc'[t] # "cas")
              => op[t].old <= op[t].x
      ]_vars

\* C20: the diagnostic operations only read: assert(), the creation of a
\* scope (which calls get_used()) and the end of a scope, on a normal exit
\* or during unwinding, passing or failing, leave every counter and the
\* heap as they were.
C20_DiagnosticsReadOnly ==
    [][\A t \in Threads :
        (AssertStep(t) \/ ScopeStep(t) \/ GuardLeaves(t)
            \/ (pc[t] = "panicking" /\ pc'[t] # "panicking"))
          => (used' = used /\ live' = live)
      ]_vars

\* C20's case: in a checked build an inner scope's check has failed on a
\* non-empty counter, and the counter still holds the value that failed it
\* for the enclosing guard's check to read.
C20_Witness ==
    /\ debug_assertions
    /\ pc[1] = "panicking" /\ op[1].name = "drop"
    /\ guards[1] # <<>>
    /\ used[1] > 0 /\ used[1] # op[1].old
====
